---------------------------- MODULE Spec2Model ----------------------------
(***************************************************************************)
(* A model of the imagehash crate (src/src/lib.rs): the two hashers        *)
(* (AverageHash, DifferenceHash), the bit derivations average_hash and     *)
(* difference_hash, the bit packer bits_to_bytes and the hex encoder       *)
(* bytes_to_hex.                                                           *)
(*                                                                         *)
(* Integers keep the width they have in the source: ImageOp's width and    *)
(* height are u8, the pixel sum of average_hash is a u16.  An arithmetic   *)
(* operation whose mathematical result leaves its type either panics (a    *)
(* build with overflow checks, the debug profile) or wraps (a build        *)
(* without, the release profile): overflow_checks is the build's choice.   *)
(* A division by zero and an index out of bounds panic in every build.     *)
(***************************************************************************)
EXTENDS Integers, Sequences, FiniteSets

VARIABLES
    overflow_checks, \* whether the build panics on integer overflow
    pc,              \* "start", "bound" (a hasher exists), "done" (a call ended)
    hasher,          \* the hasher constructed, or NoHasher
    call,            \* the last call's function, ImageOp and image, or NoCall
    out              \* the last call's outcome and the values it computed

vars == <<overflow_checks, pc, hasher, call, out>>

---------------------------------------------------------------------------
(* Integer types *)

\* u8: the type of ImageOp.width, ImageOp.height and of a sample
U8Modulus == 256
\* u16: the accumulator type of average_hash's sum
U16Modulus == 65536

\* a u8 operation: the value the wrapping build keeps, and whether the
\* mathematical result left the type
MulU8(a, b) == [val |-> (a * b) % U8Modulus, ovf |-> a * b >= U8Modulus]
AddU8(a, b) == [val |-> (a + b) % U8Modulus, ovf |-> a + b >= U8Modulus]
SubU8(a, b) == [val |-> (a - b) % U8Modulus, ovf |-> a < b]

---------------------------------------------------------------------------
(* Bounds and input sets *)

\* the longest period of a source image's samples
MaxTile == 3
\* the largest preprocessed grid (width * height) explored
MaxPixels == 300
\* the longest bit vector given to bits_to_bytes on its own
MaxBits == 10
\* the longest byte vector given to bytes_to_hex on its own
MaxBytes == 3

\* gray levels of the samples
Levels == {0, 128, 255}
\* the values a dimension is drawn from: 0, the small ones, the defaults (8, 9)
\* and those whose products cross 255 (16 * 16, 17 * 16, 32 * 9, 2 * 129)
DimValues == {0, 1, 2, 3, 8, 9, 16, 17, 32, 129, 255}
\* image::imageops::FilterType
FilterType == {"Nearest", "Triangle", "CatmullRom", "Gaussian", "Lanczos3"}
\* the filters the explored configurations use
Filters == {"Nearest", "Lanczos3"}

\* a source image, as the samples the preprocessor derives from it repeat
Images == UNION {[1..n -> Levels] : n \in 1..MaxTile}

\* struct ImageOp: any u8 width and height, any filter (the fields are public
\* and nothing validates them)
ImageOp ==
    {o \in [width : DimValues, height : DimValues, filter : Filters] :
        o.width * o.height <= MaxPixels}

\* the bit vectors given to bits_to_bytes on its own
BitVectors == UNION {[1..n -> BOOLEAN] : n \in 0..MaxBits}

\* byte values with a zero high digit, a zero low digit, letters and digits
ByteSamples == {0, 1, 9, 10, 15, 16, 127, 128, 171, 255}
\* the byte vectors given to bytes_to_hex on its own: every single byte, and
\* the vectors of sampled bytes
ByteVectors ==
    UNION {[1..n -> 0..(U8Modulus - 1)] : n \in 0..1}
    \cup UNION {[1..n -> ByteSamples] : n \in 2..MaxBytes}

NoHasher == [alg |-> "none"]
NoCall == [fn |-> "none"]
NoOut == [status |-> "none"]

---------------------------------------------------------------------------
(* Preprocessor *)

\* image.grayscale().resize_exact(width, height, filter).into_luma8().into_raw():
\* a row-major grid of width * height samples (the dimensions widened to u32),
\* empty when a dimension is 0.  The samples are those of the image, whatever
\* the filter: the choice of the image covers the filter's effect.
Preprocess(image, op) ==
    [i \in 1..(op.width * op.height) |-> image[((i - 1) % Len(image)) + 1]]

---------------------------------------------------------------------------
(* average_hash *)

\* one addition of sum::<u16>(): the accumulator acc after the sample v; a
\* build with overflow checks stops at the first overflow
SumStep(acc, v, checks) ==
    IF acc.ovf /\ checks THEN acc
    ELSE IF acc.val + v >= U16Modulus
         THEN [val |-> IF checks THEN acc.val ELSE (acc.val + v) % U16Modulus,
               ovf |-> TRUE]
         ELSE [val |-> acc.val + v, ovf |-> acc.ovf]

\* the accumulator after the samples lo .. hi - 1 (1-based), in order
RECURSIVE SumRange(_, _, _, _, _)
SumRange(pixels, lo, hi, acc, checks) ==
    IF (acc.ovf /\ checks) \/ hi <= lo THEN acc
    ELSE IF hi = lo + 1 THEN SumStep(acc, pixels[lo], checks)
    ELSE LET mid == (lo + hi) \div 2
         IN  SumRange(pixels, mid, hi, SumRange(pixels, lo, mid, acc, checks), checks)

\* pixels.iter().map(|i| u16::from(*i)).sum::<u16>()
SumU16(pixels, checks) ==
    SumRange(pixels, 1, Len(pixels) + 1, [val |-> 0, ovf |-> FALSE], checks)

Panicked(kind, pixels, ovf) ==
    [status |-> kind, overflow |-> ovf, pixels |-> pixels,
     bits |-> <<>>, bytes |-> <<>>, hex |-> <<>>]

Returned(pixels, bits, ovf) ==
    [status |-> "ok", overflow |-> ovf, pixels |-> pixels,
     bits |-> bits, bytes |-> <<>>, hex |-> <<>>]

average_hash(image, op, checks) ==
    LET pixels == Preprocess(image, op)
        sum == SumU16(pixels, checks)
        divisor == MulU8(op.width, op.height)
        average == sum.val \div divisor.val
    IN  IF checks /\ sum.ovf THEN Panicked("panic_overflow", pixels, TRUE)
        ELSE IF checks /\ divisor.ovf THEN Panicked("panic_overflow", pixels, TRUE)
        ELSE IF divisor.val = 0
             THEN Panicked("panic_divide_by_zero", pixels, sum.ovf \/ divisor.ovf)
        ELSE Returned(pixels, [i \in 1..Len(pixels) |-> pixels[i] > average],
                      sum.ovf \/ divisor.ovf)

---------------------------------------------------------------------------
(* difference_hash *)

\* the body of difference_hash's loop at its k-th iteration (y = k / w1,
\* x = k % w1, w1 the value of op.width - 1), on the outcome st so far
DiffStep(k, st, op, w1, checks) ==
    IF st.status # "ok" THEN st
    ELSE
      LET y == k \div w1
          x == k % w1
          yw == MulU8(y, op.width)
          offset_p == AddU8(yw.val, x)
          yb == MulU8(y, w1)
          offset_b == AddU8(yb.val, x)
          here == yw.ovf \/ offset_p.ovf \/ yb.ovf \/ offset_b.ovf
      IN  IF checks /\ here
          THEN Panicked("panic_overflow", st.pixels, TRUE)
          ELSE IF offset_p.val + 1 >= Len(st.pixels)
          THEN Panicked("panic_bounds", st.pixels, st.overflow \/ here)
          ELSE IF offset_b.val >= Len(st.bits)
          THEN Panicked("panic_bounds", st.pixels, st.overflow \/ here)
          ELSE [st EXCEPT
                  !.overflow = st.overflow \/ here,
                  !.bits[offset_b.val + 1] =
                      st.pixels[offset_p.val + 2] > st.pixels[offset_p.val + 1]]

\* the outcome after the iterations lo .. hi - 1, in order
RECURSIVE DiffRange(_, _, _, _, _, _)
DiffRange(lo, hi, st, op, w1, checks) ==
    IF st.status # "ok" \/ hi <= lo THEN st
    ELSE IF hi = lo + 1 THEN DiffStep(lo, st, op, w1, checks)
    ELSE LET mid == (lo + hi) \div 2
         IN  DiffRange(mid, hi, DiffRange(lo, mid, st, op, w1, checks), op, w1, checks)

difference_hash(image, op, checks) ==
    LET pixels == Preprocess(image, op)
        w1 == SubU8(op.width, 1)
        n == MulU8(w1.val, op.height)
    IN  IF checks /\ w1.ovf THEN Panicked("panic_overflow", pixels, TRUE)
        ELSE IF checks /\ n.ovf THEN Panicked("panic_overflow", pixels, TRUE)
        ELSE DiffRange(0, op.height * w1.val,
                       Returned(pixels, [i \in 1..n.val |-> FALSE], w1.ovf \/ n.ovf),
                       op, w1.val, checks)

---------------------------------------------------------------------------
(* bits_to_bytes *)

\* bit k of the byte a
BitOf(a, k) == (a \div 2^k) % 2

\* bit k of a | b, at its place
OrAt(a, b, k) == IF BitOf(a, k) = 1 \/ BitOf(b, k) = 1 THEN 2^k ELSE 0

\* a | b on bytes
BitOr(a, b) ==
    OrAt(a, b, 0) + OrAt(a, b, 1) + OrAt(a, b, 2) + OrAt(a, b, 3)
    + OrAt(a, b, 4) + OrAt(a, b, 5) + OrAt(a, b, 6) + OrAt(a, b, 7)

\* 1 << k in u8
Shl1(k) == 2^k % U8Modulus

\* PackStep filling each byte from its least significant bit
PackStepLsbFirst(bits, i, bytes) ==
    IF bits[i + 1]
    THEN [bytes EXCEPT ![(i \div 8) + 1] =
              BitOr(bytes[(i \div 8) + 1], Shl1(i % 8))]
    ELSE bytes

\* the body of bits_to_bytes's loop at index i (0-based)
PackStep(bits, i, bytes) ==
    IF bits[i + 1]
    THEN [bytes EXCEPT ![(i \div 8) + 1] =
              BitOr(bytes[(i \div 8) + 1], Shl1(7 - (i % 8)))]
    ELSE bytes

\* the bytes after the indices lo .. hi - 1, in order
RECURSIVE PackRange(_, _, _, _)
PackRange(bits, lo, hi, bytes) ==
    IF Len(bytes) = 0 \/ hi <= lo THEN bytes
    ELSE IF hi = lo + 1 THEN PackStep(bits, lo, bytes)
    ELSE LET mid == (lo + hi) \div 2
         IN  PackRange(bits, mid, hi, PackRange(bits, lo, mid, bytes))

bits_to_bytes(bits) ==
    PackRange(bits, 0, Len(bits), [j \in 1..((Len(bits) + 7) \div 8) |-> 0])

---------------------------------------------------------------------------
(* bytes_to_hex *)

\* a string is the sequence of its characters
HexDigits ==
    <<"0", "1", "2", "3", "4", "5", "6", "7",
      "8", "9", "a", "b", "c", "d", "e", "f">>

\* {:x}: the lowercase hexadecimal digits of n, without leading zeros
RECURSIVE LowerHex(_)
LowerHex(n) ==
    IF n < 16 THEN <<HexDigits[n + 1]>>
    ELSE LowerHex(n \div 16) \o <<HexDigits[(n % 16) + 1]>>

\* {:0w}: s padded on the left with "0" to at least w characters
RECURSIVE ZeroPad(_, _)
ZeroPad(s, w) == IF Len(s) >= w THEN s ELSE ZeroPad(<<"0">> \o s, w)

\* FormatByte as {:x}, without the zero padding
FormatByteUnpadded(byte) == LowerHex(byte)

\* format!("{:02x}", byte)
FormatByte(byte) == ZeroPad(LowerHex(byte), 2)

\* what the loop of bytes_to_hex pushes for the bytes lo .. hi - 1 (1-based),
\* in order
RECURSIVE HexRange(_, _, _)
HexRange(bytes, lo, hi) ==
    IF hi <= lo THEN <<>>
    ELSE IF hi = lo + 1 THEN FormatByte(bytes[lo])
    ELSE LET mid == (lo + hi) \div 2
         IN  HexRange(bytes, lo, mid) \o HexRange(bytes, mid, hi)

bytes_to_hex(bytes) == HexRange(bytes, 1, Len(bytes) + 1)

---------------------------------------------------------------------------
(* Hashers *)

\* Default for AverageHash
DefaultAverageOp == [width |-> 8, height |-> 8, filter |-> "Lanczos3"]
\* DefaultDifferenceOp with the grid of AverageHash
DefaultDifferenceOpSquare == [width |-> 8, height |-> 8, filter |-> "Lanczos3"]

\* Default for DifferenceHash
DefaultDifferenceOp == [width |-> 9, height |-> 8, filter |-> "Lanczos3"]

\* AverageHash::hash, DifferenceHash::hash: a panic of the bit derivation
\* unwinds through hash
HashOf(bitsOut) ==
    IF bitsOut.status # "ok" THEN bitsOut
    ELSE LET bytes == bits_to_bytes(bitsOut.bits)
         IN  [bitsOut EXCEPT !.bytes = bytes, !.hex = bytes_to_hex(bytes)]

AverageHash_hash(h, image, checks) == HashOf(average_hash(image, h.op, checks))

DifferenceHash_hash(h, image, checks) == HashOf(difference_hash(image, h.op, checks))

Init ==
    /\ overflow_checks \in BOOLEAN
    /\ pc = "start"
    /\ hasher = NoHasher
    /\ call = NoCall
    /\ out = NoOut

\* AverageHash::new, AverageHash::default
AverageHashDefault ==
    /\ pc = "start"
    /\ pc' = "bound"
    /\ hasher' = [alg |-> "average", op |-> DefaultAverageOp, ctor |-> "default"]
    /\ UNCHANGED <<overflow_checks, call, out>>

\* AverageHash::with_op
AverageHashWithOp ==
    /\ pc = "start"
    /\ \E op \in ImageOp :
          hasher' = [alg |-> "average", op |-> op, ctor |-> "with_op"]
    /\ pc' = "bound"
    /\ UNCHANGED <<overflow_checks, call, out>>

\* DifferenceHash::new, DifferenceHash::default
DifferenceHashDefault ==
    /\ pc = "start"
    /\ pc' = "bound"
    /\ hasher' = [alg |-> "difference", op |-> DefaultDifferenceOp, ctor |-> "default"]
    /\ UNCHANGED <<overflow_checks, call, out>>

\* DifferenceHash::with_op
DifferenceHashWithOp ==
    /\ pc = "start"
    /\ \E op \in ImageOp :
          hasher' = [alg |-> "difference", op |-> op, ctor |-> "with_op"]
    /\ pc' = "bound"
    /\ UNCHANGED <<overflow_checks, call, out>>

\* AverageHash::hash
HashAverage ==
    /\ pc = "bound"
    /\ hasher.alg = "average"
    /\ \E image \in Images :
          /\ call' = [fn |-> "average_hash", op |-> hasher.op, image |-> image,
                      via |-> "hash"]
          /\ out' = AverageHash_hash(hasher, image, overflow_checks)
    /\ pc' = "done"
    /\ UNCHANGED <<overflow_checks, hasher>>

\* DifferenceHash::hash
HashDifference ==
    /\ pc = "bound"
    /\ hasher.alg = "difference"
    /\ \E image \in Images :
          /\ call' = [fn |-> "difference_hash", op |-> hasher.op, image |-> image,
                      via |-> "hash"]
          /\ out' = DifferenceHash_hash(hasher, image, overflow_checks)
    /\ pc' = "done"
    /\ UNCHANGED <<overflow_checks, hasher>>

Next ==
    \/ AverageHashDefault
    \/ AverageHashWithOp
    \/ DifferenceHashDefault
    \/ DifferenceHashWithOp
    \/ HashAverage
    \/ HashDifference

Spec == Init /\ [][Next]_vars

---------------------------------------------------------------------------
(* bits_to_bytes and bytes_to_hex on their own *)

InitPack ==
    /\ overflow_checks \in BOOLEAN
    /\ pc = "start"
    /\ hasher = NoHasher
    /\ call \in {[fn |-> "bits_to_bytes", bits |-> b] : b \in BitVectors}
    /\ out = NoOut

PackBits ==
    /\ pc = "start"
    /\ call.fn = "bits_to_bytes"
    /\ out' = [status |-> "ok", bytes |-> bits_to_bytes(call.bits)]
    /\ pc' = "done"
    /\ UNCHANGED <<overflow_checks, hasher, call>>

SpecPack == InitPack /\ [][PackBits]_vars

InitHex ==
    /\ overflow_checks \in BOOLEAN
    /\ pc = "start"
    /\ hasher = NoHasher
    /\ call \in {[fn |-> "bytes_to_hex", bytes |-> b] : b \in ByteVectors}
    /\ out = NoOut

ToHex ==
    /\ pc = "start"
    /\ call.fn = "bytes_to_hex"
    /\ out' = [status |-> "ok", hex |-> bytes_to_hex(call.bytes)]
    /\ pc' = "done"
    /\ UNCHANGED <<overflow_checks, hasher, call>>

SpecHex == InitHex /\ [][ToHex]_vars

---------------------------------------------------------------------------
(* Properties *)

\* the exact sum of the samples lo .. hi - 1
RECURSIVE ExactSum(_, _, _)
ExactSum(pixels, lo, hi) ==
    IF hi <= lo THEN 0
    ELSE IF hi = lo + 1 THEN pixels[lo]
    ELSE LET mid == (lo + hi) \div 2
         IN  ExactSum(pixels, lo, mid) + ExactSum(pixels, mid, hi)

\* a call of fn has ended on a configuration with width >= minWidth, height >= 1
Ended(fn, minWidth) ==
    /\ pc = "done"
    /\ call.fn = fn
    /\ call.op.width >= minWidth
    /\ call.op.height >= 1

Uniform(pixels) == \A i \in DOMAIN pixels : pixels[i] = pixels[1]

LowerHexChars ==
    {"0", "1", "2", "3", "4", "5", "6", "7",
     "8", "9", "a", "b", "c", "d", "e", "f"}

\* the value of a hexadecimal digit
HexValue(c) ==
    CASE c = "0" -> 0 [] c = "1" -> 1 [] c = "2" -> 2 [] c = "3" -> 3
      [] c = "4" -> 4 [] c = "5" -> 5 [] c = "6" -> 6 [] c = "7" -> 7
      [] c = "8" -> 8 [] c = "9" -> 9 [] c = "a" -> 10 [] c = "b" -> 11
      [] c = "c" -> 12 [] c = "d" -> 13 [] c = "e" -> 14 [] c = "f" -> 15

CeilDiv8(n) == IF n % 8 = 0 THEN n \div 8 ELSE (n \div 8) + 1

\* C1: for 1 <= width, height <= 255, average_hash returns a bit vector whose
\* bit i is true exactly when pixel[i] > floor(sum of all pixels / (width *
\* height)), the mean taken in unbounded integer arithmetic.
C1_BitsAgainstExactMean ==
    Ended("average_hash", 1) =>
        /\ out.status = "ok"
        /\ DOMAIN out.bits = DOMAIN out.pixels
        /\ LET mean == ExactSum(out.pixels, 1, Len(out.pixels) + 1)
                            \div (call.op.width * call.op.height)
           IN  \A i \in DOMAIN out.pixels : out.bits[i] <=> (out.pixels[i] > mean)

\* C2: for 1 <= width, height <= 255, no intermediate value of average_hash's
\* mean leaves its integer type: neither the running sum nor the divisor
\* width * height.
C2_MeanWithoutOverflow ==
    Ended("average_hash", 1) => ~out.overflow

\* C3: for 1 <= width, height <= 255, difference_hash completes and returns a
\* bit vector of length (width - 1) * height, the product not reduced modulo
\* 256; width = 1 gives the empty vector.
C3_DifferenceLength ==
    Ended("difference_hash", 1) =>
        /\ out.status = "ok"
        /\ Len(out.bits) = (call.op.width - 1) * call.op.height

\* C4: for 2 <= width <= 255 and 1 <= height <= 255, the bit of difference_hash
\* at y * (width - 1) + x is pixel[y * width + x + 1] > pixel[y * width + x] for
\* every row y and column x < width - 1, the indices without wrap-around; no
\* other index is written and none is out of bounds.
C4_DifferenceBits ==
    Ended("difference_hash", 2) =>
        /\ out.status = "ok"
        /\ Len(out.bits) = (call.op.width - 1) * call.op.height
        /\ \A y \in 0..(call.op.height - 1) : \A x \in 0..(call.op.width - 2) :
              out.bits[y * (call.op.width - 1) + x + 1] <=>
                  (out.pixels[y * call.op.width + x + 2]
                      > out.pixels[y * call.op.width + x + 1])

\* C5: a configuration with width = 0 or height = 0 is rejected when it is
\* constructed: no hasher is bound to one, and no hash is computed for one.
C5_ZeroDimensionRejected ==
    hasher # NoHasher => (hasher.op.width >= 1 /\ hasher.op.height >= 1)

\* C6: bits_to_bytes returns ceil(len(bits) / 8) bytes; bit 7 - (i % 8) of byte
\* i / 8 is set exactly when bits[i] is true, and the bits of the last byte
\* that stand for no input bit are 0.
C6_PackedMsbFirst ==
    (pc = "done" /\ call.fn = "bits_to_bytes") =>
        /\ Len(out.bytes) = CeilDiv8(Len(call.bits))
        /\ \A j \in DOMAIN out.bytes : out.bytes[j] \in 0..(U8Modulus - 1)
        /\ \A i \in 0..(8 * Len(out.bytes) - 1) :
              (BitOf(out.bytes[(i \div 8) + 1], 7 - (i % 8)) = 1)
                  <=> (i < Len(call.bits) /\ call.bits[i + 1])

C6_Witness ==
    /\ pc = "done"
    /\ call.fn = "bits_to_bytes"
    /\ Len(call.bits) = 10
    /\ call.bits[1] /\ call.bits[10]
    /\ out.bytes[2] = 64

\* C7: bytes_to_hex returns 2 * len(bytes) characters of [0-9a-f]; characters
\* 2k and 2k + 1 are the high and the low hexadecimal digit of bytes[k], a
\* leading zero kept, without separator or prefix.
C7_TwoLowerHexDigitsPerByte ==
    (pc = "done" /\ call.fn = "bytes_to_hex") =>
        /\ Len(out.hex) = 2 * Len(call.bytes)
        /\ \A j \in DOMAIN out.hex : out.hex[j] \in LowerHexChars
        /\ \A k \in DOMAIN call.bytes :
              /\ HexValue(out.hex[2 * k - 1]) = call.bytes[k] \div 16
              /\ HexValue(out.hex[2 * k]) = call.bytes[k] % 16

C7_Witness ==
    /\ pc = "done"
    /\ call.fn = "bytes_to_hex"
    /\ call.bytes = <<10, 255, 16>>
    /\ out.hex = <<"0", "a", "f", "f", "1", "0">>

\* C8: for 1 <= width, height <= 255, average_hash returns a bit vector of
\* length width * height.
C8_AverageLength ==
    Ended("average_hash", 1) =>
        /\ out.status = "ok"
        /\ Len(out.bits) = call.op.width * call.op.height

\* C9: for 1 <= width, height <= 255, a grid whose samples are all equal gives
\* an all-false average_hash vector and an all-false difference_hash vector.
C9_UniformAllFalse ==
    ((Ended("average_hash", 1) \/ Ended("difference_hash", 1))
            /\ Uniform(out.pixels)) =>
        /\ out.status = "ok"
        /\ \A i \in DOMAIN out.bits : ~out.bits[i]

\* C10: the default AverageHash uses an 8x8 grid and the default DifferenceHash
\* a 9x8 grid with the same filter, and hash() of either is the 16 lowercase
\* hexadecimal characters that encode the packed 64 bits:
\* bytes_to_hex(bits_to_bytes(bits)).
C10_DefaultHash ==
    /\ DefaultAverageOp.filter = DefaultDifferenceOp.filter
    /\ (hasher # NoHasher /\ hasher.ctor = "default") =>
          /\ hasher.op.height = 8
          /\ hasher.op.width = (IF hasher.alg = "average" THEN 8 ELSE 9)
    /\ (pc = "done" /\ hasher.ctor = "default") =>
          /\ out.status = "ok"
          /\ Len(out.bits) = 64
          /\ Len(out.hex) = 16
          /\ out.hex = bytes_to_hex(bits_to_bytes(out.bits))
          /\ \A j \in DOMAIN out.hex : out.hex[j] \in LowerHexChars
          /\ \A i \in 0..63 :
                out.bits[i + 1] <=>
                    (BitOf(16 * HexValue(out.hex[2 * (i \div 8) + 1])
                               + HexValue(out.hex[2 * (i \div 8) + 2]),
                           7 - (i % 8)) = 1)

C10_Witness ==
    /\ pc = "done"
    /\ hasher.ctor = "default"
    /\ hasher.alg = "difference"
    /\ out.status = "ok"
    /\ out.bits[1] /\ ~out.bits[2]
    /\ Len(out.hex) = 16

=============================================================================
